---- MODULE Spec2Model ----
(***************************************************************************)
(* The two chat clients of the repository as one state machine.            *)
(*   frankenthought-chat.py : every message goes to the four backends in   *)
(*                            parallel and the answers are synthesized.    *)
(*   multi-chat.py          : every message goes to the selected backend.  *)
(* `program` says which of the two scripts is running.  Texts are tuples   *)
(* whose first element is the fixed part of the string the code builds.    *)
(***************************************************************************)
EXTENDS Integers, Sequences, FiniteSets, TLC

VARIABLES
    program,            \* which script runs: "frankenthought" or "multi"
    gemini_model,       \* module global: FALSE when initialisation failed (None)
    openai_client,      \* module global: FALSE when None
    openrouter_client,  \* module global: FALSE when None
    chat_history,       \* module global: list of {"role", "content"}
    chat,               \* get_gemini_response.chat / chat_with_model.gemini_chat
    current_model,      \* multi-chat main(): the selected key of MODELS (0: none)
    pc,                 \* position of main() / process_message() / chat_with_model()
    message,            \* the message being processed
    calls,              \* per backend: the adapter call of the current exchange
    responses,          \* process_message: the dict built from gather's results
    synthesis_prompt,   \* synthesize_responses: the prompt sent to O1
    final_response,     \* process_message: final_response; main(): response
    synth_calls,        \* invocations of synthesize_responses in this exchange
    exchanges,          \* successful exchanges completed since start / clear
    cleared,            \* a --clear command has been handled in this run
    log_file            \* chat_responses.json on disk

vars == <<program, gemini_model, openai_client, openrouter_client, chat_history,
          chat, current_model, pc, message, calls, responses, synthesis_prompt,
          final_response, synth_calls, exchanges, cleared, log_file>>

----------------------------------------------------------------------------
(* Bounds of the model *)

MaxExchanges == 2
MaxReplies == 1
MaxLog == 2

(* The user's inputs and the backends' possible reply texts *)
Messages == {<<"What is 2+2?">>, <<"And 3+3?">>}
ReplyIds == 1 .. MaxReplies

----------------------------------------------------------------------------
(* The backends *)

Backends == <<"gemini", "deepseek", "qwen", "o1">>
BackendSet == {Backends[i] : i \in 1 .. Len(Backends)}

MODELS ==
    [gemini |-> "gemini-2.0-flash-thinking-exp-01-21",
     o1 |-> "o1",
     deepseek |-> "deepseek/deepseek-r1",
     qwen |-> "qwen/qwq-32b-preview"]

MultiModels == <<"gemini", "o1", "deepseek", "qwen">>

TaskIndex(b) == CHOOSE i \in 1 .. Len(Backends) : Backends[i] = b

NoText == <<>>

----------------------------------------------------------------------------
(* Texts *)

Reply(b, r) == <<"reply of", MODELS[b], r>>
SynthesisReply(r) == <<"synthesis by", MODELS["o1"], r>>

GeminiNotAvailable == <<"Gemini model not available">>
ClientNotAvailable(model) == <<model, " client not available">>
GeminiError == <<"Gemini Error: ", "e">>
OpenAIError(model) == <<model, " Error: ", "e">>
CannotSynthesize == <<"Cannot synthesize: OpenAI O1 not available">>
SynthesisError == <<"Synthesis Error: ", "e">>
SelectedNotAvailable == <<"Selected model is not available.">>
MultiError == <<"Error: ", "e">>
Raised == <<"raised", "e">>

----------------------------------------------------------------------------
(* Turns and requests *)

Turn(role, content) == [role |-> role, content |-> content]

SystemTurn == Turn("system", <<"You are a helpful AI assistant.">>)

RECURSIVE UserContents(_)
UserContents(h) ==
    IF h = <<>> THEN <<>>
    ELSE IF Head(h).role = "user"
         THEN <<Head(h).content>> \o UserContents(Tail(h))
         ELSE UserContents(Tail(h))

BuildMessages(h, m) == <<SystemTurn>> \o h \o <<Turn("user", m)>>

(* A bug of the append: the user turn is not recorded *)
AppendExchange_assistant_only(h, m, text) == h \o <<Turn("assistant", text)>>

AppendExchange(h, m, text) == h \o <<Turn("user", m), Turn("assistant", text)>>

----------------------------------------------------------------------------
(* Exception handlers of the adapters: what `except Exception` returns *)

get_gemini_response_except == GeminiError
(* A bug of the adapter: the exception is not caught *)
get_openai_response_reraise(model) == Raised

get_openai_response_except(model) == OpenAIError(model)
synthesize_responses_except == SynthesisError
send_openai_message_except == MultiError
chat_with_model_except == MultiError

----------------------------------------------------------------------------
(* State of the adapter calls *)

(* st: "none", "created" (task not yet run), "replay" / "send" (blocking   *)
(* Gemini call outstanding), "waiting" (awaited request outstanding),     *)
(* "done"; outcome: what the backend did ("skipped": never contacted,     *)
(* "replied", "raised"); result: the text the adapter returned.           *)
Call(st, idx, request, outcome, result) ==
    [st |-> st, idx |-> idx, request |-> request, outcome |-> outcome,
     result |-> result]

NoCall == Call("none", 0, NoText, "none", NoText)
CreatedCall == Call("created", 0, NoText, "none", NoText)
DoneCall(outcome, text) == Call("done", 0, NoText, outcome, text)

(* The session attribute: live is hasattr(...); sent is the user messages  *)
(* the session has received; seed is the user turns chat_history held when *)
(* the session was started.                                                *)
NoChat == [live |-> FALSE, sent |-> <<>>, seed |-> <<>>]
start_chat(h) == [live |-> TRUE, sent |-> <<>>, seed |-> UserContents(h)]

Client(b) ==
    CASE b = "gemini" -> gemini_model
      [] b = "o1" -> openai_client
      [] OTHER -> openrouter_client

----------------------------------------------------------------------------
(* The chat log: chat_responses.json.  status is "absent", "valid" (the    *)
(* file parses to the list entries) or "corrupt" (a write stopped part-way: *)
(* the file was truncated by open(..., 'w') and holds no complete list).    *)

NoFile == [status |-> "absent", entries |-> <<>>]
ValidFile(entries) == [status |-> "valid", entries |-> entries]
TruncatedFile == [status |-> "corrupt", entries |-> <<>>]

(* The entry process_message appends (the timestamp is not modelled) *)
LogEntry(m, resp, final) ==
    [user_message |-> m,
     model_responses |-> [i \in 1 .. Len(resp) |-> <<"Model", i, resp[i][2]>>],
     final_response |-> final]

(* An entry written by an earlier run of the program *)
OldEntry ==
    LogEntry(<<"What is 2+2?">>,
             << <<"gemini", GeminiNotAvailable>>,
                <<"deepseek", ClientNotAvailable(MODELS["deepseek"])>>,
                <<"qwen", ClientNotAvailable(MODELS["qwen"])>>,
                <<"o1", ClientNotAvailable(MODELS["o1"])>> >>,
             CannotSynthesize)

(* load_chat_log: [] when there is no file or it does not parse *)
load_chat_log(file) == IF file.status = "valid" THEN file.entries ELSE <<>>

(* save_chat_log: the file after the call.  "saved": the list is written;  *)
(* "open_failed": open raised, the file is as before; "write_failed":      *)
(* json.dump raised after open truncated the file.  The exception is       *)
(* printed, not raised.                                                    *)
SaveOutcomes == {"saved", "open_failed", "write_failed"}

save_chat_log(file, chat_log, outcome) ==
    CASE outcome = "saved" -> ValidFile(chat_log)
      [] outcome = "open_failed" -> file
      [] OTHER -> TruncatedFile

Frankenthought == program = "frankenthought"
Multi == program = "multi"

config == <<program, gemini_model, openai_client, openrouter_client>>

(* The one thread is inside a synchronous (blocking) Gemini call *)
Blocking == calls["gemini"].st \in {"replay", "send"}

Init ==
    /\ program \in {"frankenthought", "multi"}
    /\ gemini_model \in BOOLEAN
    /\ openai_client \in BOOLEAN
    /\ openrouter_client \in BOOLEAN
    /\ chat_history = <<>>
    /\ chat = NoChat
    /\ current_model = 0
    /\ pc = IF program = "frankenthought" THEN "input" ELSE "menu"
    /\ message = NoText
    /\ calls = [b \in BackendSet |-> NoCall]
    /\ responses = <<>>
    /\ synthesis_prompt = NoText
    /\ final_response = NoText
    /\ synth_calls = 0
    /\ exchanges = 0
    /\ cleared = FALSE
    /\ log_file \in IF program = "frankenthought"
                    THEN {NoFile, ValidFile(<<OldEntry>>)}
                    ELSE {NoFile}

----------------------------------------------------------------------------
(* Commands of both main loops *)

(* A bug of --clear: the history is emptied, the session is kept *)
Clear_keeps_session ==
    /\ pc = "input"
    /\ chat_history' = <<>>
    /\ cleared' = TRUE
    /\ exchanges' = 0
    /\ UNCHANGED <<log_file, config, chat, current_model, pc, message, calls, responses,
                   synthesis_prompt, final_response, synth_calls>>

Clear ==
    /\ pc = "input"
    /\ chat_history' = <<>>
    /\ chat' = NoChat
    /\ cleared' = TRUE
    /\ exchanges' = 0
    /\ UNCHANGED <<log_file, config, current_model, pc, message, calls, responses,
                   synthesis_prompt, final_response, synth_calls>>

Exit ==
    /\ pc = "input"
    /\ pc' = "exited"
    /\ UNCHANGED <<log_file, config, chat_history, chat, current_model, message, calls,
                   responses, synthesis_prompt, final_response, synth_calls,
                   exchanges, cleared>>

----------------------------------------------------------------------------
(* The Gemini adapter: get_gemini_response (frankenthought-chat.py) and the  *)
(* Gemini branch of chat_with_model (multi-chat.py).  send_message is a      *)
(* synchronous call: while it is outstanding nothing else runs.              *)
(* A send_message call either returns a response whose text is read, or     *)
(* raises; a call that raises leaves the session's own memory as it was.     *)

(* The call raised: get_gemini_response returns the error text as the task's *)
(* result; chat_with_model returns the error text to main() and appends      *)
(* nothing.  The session attribute stays set.                                *)
GeminiRaise ==
    IF Frankenthought
    THEN /\ calls' = [calls EXCEPT !["gemini"] = DoneCall("raised", get_gemini_response_except)]
         /\ UNCHANGED <<pc, final_response>>
    ELSE /\ calls' = [calls EXCEPT !["gemini"] = DoneCall("raised", NoText)]
         /\ final_response' = chat_with_model_except
         /\ pc' = "returned"

(* A bug of the adapter: the user turns of the history are replayed on      *)
(* every call, also into a session that exists                              *)
GeminiBegin_always_seeds ==
    /\ \/ Frankenthought /\ pc = "gather" /\ calls["gemini"].st = "created"
       \/ /\ Multi /\ pc = "chat" /\ calls["gemini"].st = "none"
          /\ MultiModels[current_model] = "gemini" /\ gemini_model
    /\ IF ~gemini_model
       THEN /\ calls' = [calls EXCEPT !["gemini"] = DoneCall("skipped", GeminiNotAvailable)]
            /\ chat' = chat
       ELSE /\ chat' = IF chat.live THEN chat ELSE start_chat(chat_history)
            /\ calls' = [calls EXCEPT !["gemini"] =
                  IF UserContents(chat_history) # <<>>
                  THEN Call("replay", 1, UserContents(chat_history)[1], "none", NoText)
                  ELSE Call("send", 0, message, "none", NoText)]
    /\ UNCHANGED <<log_file, config, chat_history, current_model, pc, message, responses,
                   synthesis_prompt, final_response, synth_calls, exchanges,
                   cleared>>

(* First step of the adapter: availability test, lazy creation of the        *)
(* session, and the first send_message call issued (a replay of the first    *)
(* user turn of chat_history when the session is new, else the message).     *)
GeminiBegin ==
    /\ \/ Frankenthought /\ pc = "gather" /\ calls["gemini"].st = "created"
       \/ /\ Multi /\ pc = "chat" /\ calls["gemini"].st = "none"
          /\ MultiModels[current_model] = "gemini" /\ gemini_model
    /\ IF ~gemini_model
       THEN /\ calls' = [calls EXCEPT !["gemini"] = DoneCall("skipped", GeminiNotAvailable)]
            /\ chat' = chat
       ELSE /\ chat' = IF chat.live THEN chat ELSE start_chat(chat_history)
            /\ calls' = [calls EXCEPT !["gemini"] =
                  IF ~chat.live /\ UserContents(chat_history) # <<>>
                  THEN Call("replay", 1, UserContents(chat_history)[1], "none", NoText)
                  ELSE Call("send", 0, message, "none", NoText)]
    /\ UNCHANGED <<log_file, config, chat_history, current_model, pc, message, responses,
                   synthesis_prompt, final_response, synth_calls, exchanges,
                   cleared>>

(* One replayed user turn returns (ok) or raises *)
GeminiReplayReturn(ok) ==
    LET c == calls["gemini"]
        users == UserContents(chat_history)
    IN  /\ c.st = "replay"
        /\ IF ok
           THEN /\ chat' = [chat EXCEPT !.sent = Append(@, c.request)]
                /\ calls' = [calls EXCEPT !["gemini"] =
                      IF c.idx < Len(users)
                      THEN Call("replay", c.idx + 1, users[c.idx + 1], "none", NoText)
                      ELSE Call("send", 0, message, "none", NoText)]
                /\ UNCHANGED <<pc, final_response>>
           ELSE /\ chat' = chat
                /\ GeminiRaise
        /\ UNCHANGED <<log_file, config, chat_history, current_model, message, responses,
                       synthesis_prompt, synth_calls, exchanges, cleared>>

(* The send of the new message returns reply r (ok) or raises *)
GeminiSendReturn(ok, r) ==
    LET c == calls["gemini"]
        text == Reply("gemini", r)
    IN  /\ c.st = "send"
        /\ IF ok
           THEN /\ chat' = [chat EXCEPT !.sent = Append(@, c.request)]
                /\ calls' = [calls EXCEPT !["gemini"] = DoneCall("replied", text)]
                /\ IF Frankenthought
                   THEN UNCHANGED <<chat_history, exchanges, pc, final_response>>
                   ELSE /\ chat_history' = AppendExchange(chat_history, message, text)
                        /\ exchanges' = exchanges + 1
                        /\ final_response' = text
                        /\ pc' = "returned"
           ELSE /\ chat' = chat
                /\ GeminiRaise
                /\ UNCHANGED <<chat_history, exchanges>>
        /\ UNCHANGED <<log_file, config, current_model, message, responses,
                       synthesis_prompt, synth_calls, cleared>>

----------------------------------------------------------------------------
(* frankenthought-chat.py: process_message *)

(* main() reads a message; process_message creates the four tasks and       *)
(* awaits gather                                                            *)
FT_Read(m) ==
    /\ Frankenthought
    /\ pc = "input"
    /\ exchanges < MaxExchanges
    /\ Len(log_file.entries) < MaxLog
    /\ message' = m
    /\ calls' = [b \in BackendSet |-> CreatedCall]
    /\ pc' = "gather"
    /\ UNCHANGED <<log_file, config, chat_history, chat, current_model, responses,
                   synthesis_prompt, final_response, synth_calls, exchanges,
                   cleared>>

(* A bug of the adapter: messages is chat_history itself, not a copy, so   *)
(* the append of the new message lands in the shared history.             *)
FT_OpenAIStart_aliased(b) ==
    /\ Frankenthought
    /\ pc = "gather"
    /\ b # "gemini"
    /\ calls[b].st = "created"
    /\ ~Blocking
    /\ \A j \in 1 .. TaskIndex(b) - 1 : calls[Backends[j]].st # "created"
    /\ calls' = [calls EXCEPT ![b] =
          IF ~Client(b)
          THEN DoneCall("skipped", ClientNotAvailable(MODELS[b]))
          ELSE Call("waiting", 0, BuildMessages(chat_history, message), "none", NoText)]
    /\ chat_history' = IF ~Client(b) THEN chat_history
                       ELSE Append(chat_history, Turn("user", message))
    /\ UNCHANGED <<log_file, config, chat, current_model, pc, message,
                   responses, synthesis_prompt, final_response, synth_calls,
                   exchanges, cleared>>

(* First step of a get_openai_response task: tasks take their first step in *)
(* creation order; the request is issued and the task suspends.             *)
FT_OpenAIStart(b) ==
    /\ Frankenthought
    /\ pc = "gather"
    /\ b # "gemini"
    /\ calls[b].st = "created"
    /\ ~Blocking
    /\ \A j \in 1 .. TaskIndex(b) - 1 : calls[Backends[j]].st # "created"
    /\ calls' = [calls EXCEPT ![b] =
          IF ~Client(b)
          THEN DoneCall("skipped", ClientNotAvailable(MODELS[b]))
          ELSE Call("waiting", 0, BuildMessages(chat_history, message), "none", NoText)]
    /\ UNCHANGED <<log_file, config, chat_history, chat, current_model, pc, message,
                   responses, synthesis_prompt, final_response, synth_calls,
                   exchanges, cleared>>

(* The reply of an outstanding request arrives (ok, reply r) or the call    *)
(* raises; arrivals are handled once every task has taken its first step.   *)
FT_OpenAIReturn(b, ok, r) ==
    /\ Frankenthought
    /\ pc = "gather"
    /\ calls[b].st = "waiting"
    /\ \A x \in BackendSet : calls[x].st # "created"
    /\ calls' = [calls EXCEPT ![b] =
          IF ok THEN DoneCall("replied", Reply(b, r))
          ELSE DoneCall("raised", get_openai_response_except(MODELS[b]))]
    /\ UNCHANGED <<log_file, config, chat_history, chat, current_model, pc, message,
                   responses, synthesis_prompt, final_response, synth_calls,
                   exchanges, cleared>>

(* results[i] of gather is the result of tasks[i] *)
GatherResults == [i \in 1 .. Len(Backends) |-> calls[Backends[i]].result]

BuildResponses(results) ==
    << <<"gemini", results[1]>>, <<"deepseek", results[2]>>,
       <<"qwen", results[3]>>, <<"o1", results[4]>> >>

(* A bug of the join: it returns when the first task is done *)
GatherDone_first_completed == \E b \in BackendSet : calls[b].st = "done"

GatherDone == \A b \in BackendSet : calls[b].st = "done"

(* gather returns when every task is done; an exception of a task is        *)
(* raised out of gather and process_message into main()'s handler.          *)
FT_Join ==
    /\ Frankenthought
    /\ pc = "gather"
    /\ GatherDone
    /\ IF \E b \in BackendSet : calls[b].result = Raised
       THEN /\ pc' = "failed"
            /\ responses' = responses
       ELSE /\ pc' = "joined"
            /\ responses' = BuildResponses(GatherResults)
    /\ UNCHANGED <<log_file, config, chat_history, chat, current_model, message, calls,
                   synthesis_prompt, final_response, synth_calls, exchanges,
                   cleared>>

ResponseOf(resp, key) ==
    LET i == CHOOSE j \in 1 .. Len(resp) : resp[j][1] = key
    IN  resp[i][2]

(* A bug of the prompt: the fourth slot repeats the first response *)
SynthesisPrompt_repeats_first(user_message, resp) ==
    <<"User's Message: ", user_message,
      "Model 1: ", ResponseOf(resp, "gemini"),
      "Model 2: ", ResponseOf(resp, "deepseek"),
      "Model 3: ", ResponseOf(resp, "qwen"),
      "Model 4: ", ResponseOf(resp, "gemini")>>

SynthesisPrompt(user_message, resp) ==
    <<"User's Message: ", user_message,
      "Model 1: ", ResponseOf(resp, "gemini"),
      "Model 2: ", ResponseOf(resp, "deepseek"),
      "Model 3: ", ResponseOf(resp, "qwen"),
      "Model 4: ", ResponseOf(resp, "o1")>>

(* synthesize_responses is called: without the OpenAI client it returns at  *)
(* once, else it sends the prompt and suspends.                             *)
FT_SynthStart ==
    /\ Frankenthought
    /\ pc = "joined"
    /\ synth_calls' = synth_calls + 1
    /\ IF ~openai_client
       THEN /\ final_response' = CannotSynthesize
            /\ synthesis_prompt' = synthesis_prompt
            /\ pc' = "synthesized"
       ELSE /\ synthesis_prompt' = SynthesisPrompt(message, responses)
            /\ final_response' = final_response
            /\ pc' = "synth_wait"
    /\ UNCHANGED <<log_file, config, chat_history, chat, current_model, message, calls,
                   responses, exchanges, cleared>>

FT_SynthReturn(ok, r) ==
    /\ Frankenthought
    /\ pc = "synth_wait"
    /\ final_response' = IF ok THEN SynthesisReply(r) ELSE synthesize_responses_except
    /\ pc' = "synthesized"
    /\ UNCHANGED <<log_file, config, chat_history, chat, current_model, message, calls,
                   responses, synthesis_prompt, synth_calls, exchanges, cleared>>

(* The log lines of process_message: load, append the entry, save *)
LogExchange(outcome) ==
    log_file' = save_chat_log(log_file,
                    Append(load_chat_log(log_file),
                           LogEntry(message, responses, final_response)),
                    outcome)

(* A bug of process_message: nothing is appended when synthesis was not   *)
(* available                                                              *)
FT_Append_unless_unavailable ==
    /\ Frankenthought
    /\ pc = "synthesized"
    /\ IF final_response = CannotSynthesize
       THEN UNCHANGED <<chat_history, exchanges>>
       ELSE /\ chat_history' = AppendExchange(chat_history, message, final_response)
            /\ exchanges' = exchanges + 1
    /\ \E outcome \in SaveOutcomes : LogExchange(outcome)
    /\ pc' = "returned"
    /\ UNCHANGED <<config, chat, current_model, message, calls, responses,
                   synthesis_prompt, final_response, synth_calls, cleared>>

(* The two appends to chat_history and the rewrite of the log file;        *)
(* process_message returns final_response                                  *)
FT_Append ==
    /\ Frankenthought
    /\ pc = "synthesized"
    /\ chat_history' = AppendExchange(chat_history, message, final_response)
    /\ exchanges' = exchanges + 1
    /\ \E outcome \in SaveOutcomes : LogExchange(outcome)
    /\ pc' = "returned"
    /\ UNCHANGED <<config, chat, current_model, message, calls, responses,
                   synthesis_prompt, final_response, synth_calls, cleared>>

(* main() prints the returned text and loops *)
ShowResult ==
    /\ pc = "returned"
    /\ pc' = "input"
    /\ message' = NoText
    /\ calls' = [b \in BackendSet |-> NoCall]
    /\ responses' = <<>>
    /\ synthesis_prompt' = NoText
    /\ final_response' = NoText
    /\ synth_calls' = 0
    /\ UNCHANGED <<log_file, config, chat_history, chat, current_model, exchanges, cleared>>

(* The print of the returned text raises (the stream is closed or cannot  *)
(* encode the text): control passes to the except clause of main()        *)
PrintRaises ==
    /\ pc = "returned"
    /\ pc' = "except"
    /\ UNCHANGED <<log_file, config, chat_history, chat, current_model, message, calls,
                   responses, synthesis_prompt, final_response, synth_calls,
                   exchanges, cleared>>

(* except Exception as e: print(...).  The clause is one print to the same *)
(* stream: when it returns the loop goes on to the next input; when it     *)
(* raises, the exception leaves main() and asyncio.run, and the process    *)
(* ends.                                                                   *)
HandleError(ok) ==
    /\ pc \in {"failed", "except"}
    /\ IF ok
       THEN /\ pc' = "input"
            /\ message' = NoText
            /\ calls' = [b \in BackendSet |-> NoCall]
            /\ responses' = <<>>
            /\ synthesis_prompt' = NoText
            /\ final_response' = NoText
            /\ synth_calls' = 0
       ELSE /\ pc' = "crashed"
            /\ UNCHANGED <<message, calls, responses, synthesis_prompt,
                           final_response, synth_calls>>
    /\ UNCHANGED <<log_file, config, chat_history, chat, current_model, exchanges, cleared>>

----------------------------------------------------------------------------
(* multi-chat.py *)

(* A bug of the backend switch: the new backend starts a new conversation *)
MC_Choose_forgets_history(choice) ==
    /\ Multi
    /\ pc = "menu"
    /\ IF choice = 0
       THEN /\ pc' = "exited"
            /\ current_model' = current_model
            /\ chat_history' = chat_history
       ELSE /\ pc' = "input"
            /\ current_model' = choice
            /\ chat_history' = <<>>
    /\ UNCHANGED <<log_file, config, chat, message, calls, responses,
                   synthesis_prompt, final_response, synth_calls, exchanges,
                   cleared>>

(* get_model_choice: at start and on --change; 0 leaves the program *)
MC_Choose(choice) ==
    /\ Multi
    /\ pc = "menu"
    /\ IF choice = 0
       THEN /\ pc' = "exited"
            /\ current_model' = current_model
       ELSE /\ pc' = "input"
            /\ current_model' = choice
    /\ UNCHANGED <<log_file, config, chat_history, chat, message, calls, responses,
                   synthesis_prompt, final_response, synth_calls, exchanges,
                   cleared>>

(* --change *)
MC_Change ==
    /\ Multi
    /\ pc = "input"
    /\ pc' = "menu"
    /\ UNCHANGED <<log_file, config, chat_history, chat, current_model, message, calls,
                   responses, synthesis_prompt, final_response, synth_calls,
                   exchanges, cleared>>

(* main() reads a message and calls chat_with_model *)
MC_Read(m) ==
    /\ Multi
    /\ pc = "input"
    /\ exchanges < MaxExchanges
    /\ message' = m
    /\ pc' = "chat"
    /\ UNCHANGED <<log_file, config, chat_history, chat, current_model, calls, responses,
                   synthesis_prompt, final_response, synth_calls, exchanges,
                   cleared>>

(* The OpenAI / OpenRouter branches: send_openai_message issues the request *)
MC_OpenAIStart ==
    LET b == MultiModels[current_model]
    IN  /\ Multi
        /\ pc = "chat"
        /\ b # "gemini"
        /\ Client(b)
        /\ calls[b].st = "none"
        /\ calls' = [calls EXCEPT ![b] =
              Call("waiting", 0, BuildMessages(chat_history, message), "none", NoText)]
        /\ UNCHANGED <<log_file, config, chat_history, chat, current_model, pc, message,
                       responses, synthesis_prompt, final_response, synth_calls,
                       exchanges, cleared>>

(* send_openai_message returns the reply or its error text; chat_with_model *)
(* appends the exchange and returns the text                                *)
MC_OpenAIReturn(ok, r) ==
    LET b == MultiModels[current_model]
        text == IF ok THEN Reply(b, r) ELSE send_openai_message_except
    IN  /\ Multi
        /\ pc = "chat"
        /\ calls[b].st = "waiting"
        /\ calls' = [calls EXCEPT ![b] = DoneCall(IF ok THEN "replied" ELSE "raised", text)]
        /\ chat_history' = AppendExchange(chat_history, message, text)
        /\ exchanges' = exchanges + 1
        /\ final_response' = text
        /\ pc' = "returned"
        /\ UNCHANGED <<log_file, config, chat, current_model, message, responses,
                       synthesis_prompt, synth_calls, cleared>>

(* The else branch: the selected model's client is None *)
MC_NotAvailable ==
    /\ Multi
    /\ pc = "chat"
    /\ ~Client(MultiModels[current_model])
    /\ final_response' = SelectedNotAvailable
    /\ pc' = "returned"
    /\ UNCHANGED <<log_file, config, chat_history, chat, current_model, message, calls,
                   responses, synthesis_prompt, synth_calls, exchanges, cleared>>

----------------------------------------------------------------------------
Next ==
    \/ Clear
    \/ Exit
    \/ GeminiBegin
    \/ \E ok \in BOOLEAN : GeminiReplayReturn(ok)
    \/ \E ok \in BOOLEAN, r \in ReplyIds : GeminiSendReturn(ok, r)
    \/ \E m \in Messages : FT_Read(m)
    \/ \E b \in BackendSet : FT_OpenAIStart(b)
    \/ \E b \in BackendSet, ok \in BOOLEAN, r \in ReplyIds : FT_OpenAIReturn(b, ok, r)
    \/ FT_Join
    \/ FT_SynthStart
    \/ \E ok \in BOOLEAN, r \in ReplyIds : FT_SynthReturn(ok, r)
    \/ FT_Append
    \/ ShowResult
    \/ PrintRaises
    \/ \E ok \in BOOLEAN : HandleError(ok)
    \/ \E choice \in 0 .. Len(MultiModels) : MC_Choose(choice)
    \/ MC_Change
    \/ \E m \in Messages : MC_Read(m)
    \/ MC_OpenAIStart
    \/ \E ok \in BOOLEAN, r \in ReplyIds : MC_OpenAIReturn(ok, r)
    \/ MC_NotAvailable

Spec == Init /\ [][Next]_vars

----------------------------------------------------------------------------
(* Properties *)

IsPrefix(p, q) == Len(p) <= Len(q) /\ SubSeq(q, 1, Len(p)) = p

Alternating(h) ==
    \A i \in 1 .. Len(h) :
        h[i].role = IF i % 2 = 1 THEN "user" ELSE "assistant"

C2_ReadyOnlyAfterFullSeed ==
    (chat.live /\ calls["gemini"].st # "replay") => IsPrefix(chat.seed, chat.sent)

(* C3: when the Gemini session has answered the new message, the user      *)
(* messages it has received are exactly the user turns of the history      *)
(* (with the new message, appended or about to be appended).               *)
GeminiAnswered ==
    calls["gemini"].st = "done" /\ calls["gemini"].outcome = "replied"

ClearPost ==
    /\ chat_history' = <<>>
    /\ ~chat'.live
    /\ config' = config

FirstSendAfterClear ==
    /\ cleared
    /\ ~chat.live
    /\ gemini_model
    /\ GeminiBegin

SendsWithoutReplay ==
    /\ calls'["gemini"].st = "send"
    /\ calls'["gemini"].request = message
    /\ chat'.sent = <<>>

C4_NextSendReplaysNothing ==
    [][ /\ Clear => ClearPost
        /\ FirstSendAfterClear => SendsWithoutReplay ]_vars

(* C4 as amended: right after --clear the history is empty, no session    *)
(* exists and availability is unchanged; the first send to Gemini after a *)
(* clear replays nothing when no exchange has completed since the clear,  *)
(* and otherwise starts replaying the user turns of the exchanges         *)
(* completed since the clear.                                             *)
C4_NextSendReplaysSinceClear ==
    [][ /\ Clear => ClearPost
        /\ (FirstSendAfterClear /\ exchanges = 0) => SendsWithoutReplay
        /\ (FirstSendAfterClear /\ exchanges > 0) =>
              /\ calls'["gemini"].st = "replay"
              /\ calls'["gemini"].request = chat_history[1].content
              /\ Len(chat'.seed) = exchanges ]_vars

C4_Witness ==
    /\ cleared
    /\ exchanges = 0
    /\ chat.live
    /\ chat.sent = <<>>
    /\ calls["gemini"].st = "send"

AfterGather == pc \in {"joined", "synth_wait", "synthesized", "returned"}

NotAvailableText(b) ==
    IF b = "gemini" THEN GeminiNotAvailable ELSE ClientNotAvailable(MODELS[b])

ErrorText(b) ==
    IF b = "gemini" THEN GeminiError ELSE OpenAIError(MODELS[b])

ReplyTexts(b) == {Reply(b, r) : r \in ReplyIds}

(* C5: in all-parallel mode, past the join all four calls are done, and   *)
(* the mapping has the keys gemini, deepseek, qwen, o1 in this order,     *)
(* each bound to the text its own backend's call returned.                *)
C5_BarrierAndFixedOrder ==
    (Frankenthought /\ AfterGather) =>
        /\ \A b \in BackendSet : calls[b].st = "done"
        /\ Len(responses) = Len(Backends)
        /\ \A i \in 1 .. Len(Backends) :
              /\ responses[i][1] = Backends[i]
              /\ responses[i][2] = calls[Backends[i]].result
              /\ responses[i][2] \in
                    ReplyTexts(Backends[i])
                        \cup {NotAvailableText(Backends[i]), ErrorText(Backends[i])}

C5_Witness ==
    /\ Frankenthought
    /\ pc = "joined"
    /\ \A b \in BackendSet : calls[b].outcome = "replied"

(* C6: in all-parallel mode dispatch never raises, and past the join the  *)
(* entry of an unavailable backend is its not-available text, the entry   *)
(* of a backend whose call raised is its error text, and the entry of a   *)
(* backend that replied is that reply.                                    *)
C6_DispatchNeverRaises ==
    Frankenthought =>
        /\ pc # "failed"
        /\ \A b \in BackendSet : calls[b].result # Raised
        /\ AfterGather =>
              \A i \in 1 .. Len(Backends) :
                 LET b == Backends[i]
                     text == responses[i][2]
                 IN  /\ ~Client(b) =>
                           calls[b].outcome = "skipped" /\ text = NotAvailableText(b)
                     /\ Client(b) => calls[b].outcome \in {"raised", "replied"}
                     /\ calls[b].outcome = "raised" => text = ErrorText(b)
                     /\ calls[b].outcome = "replied" => text \in ReplyTexts(b)

C6_Witness ==
    /\ Frankenthought
    /\ pc = "joined"
    /\ ~openrouter_client
    /\ calls["gemini"].outcome = "replied"
    /\ calls["o1"].outcome = "raised"

LastTwoTurns(h, m, text) ==
    /\ Len(h) >= 2
    /\ h[Len(h) - 1] = Turn("user", m)
    /\ h[Len(h)] = Turn("assistant", text)

(* C7: in all-parallel mode without the OpenAI client, synthesis returns  *)
(* the cannot-synthesize text and the exchange completes by appending the *)
(* user turn and an assistant turn with that text; no completed exchange  *)
(* leaves the history unchanged.                                          *)
C7_UnavailableSynthesisStillAppends ==
    [][ Frankenthought =>
        /\ (~openai_client /\ pc = "joined") =>
              pc' = "synthesized" /\ final_response' = CannotSynthesize
        /\ (~openai_client /\ pc = "synthesized") =>
              /\ pc' = "returned"
              /\ final_response' = CannotSynthesize
              /\ chat_history' = chat_history
                     \o <<Turn("user", message), Turn("assistant", CannotSynthesize)>>
        /\ (pc # "returned" /\ pc' = "returned") =>
              /\ Len(chat_history') = Len(chat_history) + 2
              /\ LastTwoTurns(chat_history', message, final_response') ]_vars

C7_Witness ==
    /\ Frankenthought
    /\ ~openai_client
    /\ pc = "returned"
    /\ LastTwoTurns(chat_history, message, CannotSynthesize)

(* C8: in all-parallel mode synthesis is not invoked before the join and  *)
(* is invoked once after it; the prompt holds the user message and the    *)
(* four texts the calls returned, unchanged; the text it returns is the   *)
(* content of the assistant turn appended for the exchange.               *)
C8_SynthesisOncePerExchange ==
    Frankenthought =>
        /\ pc \in {"gather", "joined"} => synth_calls = 0
        /\ pc \in {"synth_wait", "synthesized", "returned"} =>
              /\ synth_calls = 1
              /\ \A b \in BackendSet : calls[b].st = "done"
        /\ (pc \in {"synth_wait", "synthesized", "returned"} /\ openai_client) =>
              /\ synthesis_prompt[2] = message
              /\ \A i \in 1 .. Len(Backends) :
                    synthesis_prompt[2 + 2 * i] = calls[Backends[i]].result
        /\ pc = "synth_wait" => openai_client
        /\ pc = "returned" => LastTwoTurns(chat_history, message, final_response)

C8_Witness ==
    /\ Frankenthought
    /\ pc = "returned"
    /\ ~openrouter_client
    /\ calls["gemini"].outcome = "raised"
    /\ final_response \in {SynthesisReply(r) : r \in ReplyIds}

(* C9: in single-select mode every completed exchange, also one with an   *)
(* unavailable backend or a failed call, has appended the user turn with  *)
(* the message and an assistant turn with the text returned for display.  *)
C9_SingleSelectAlwaysAppends ==
    (Multi /\ pc = "returned") =>
        LastTwoTurns(chat_history, message, final_response)

(* C10: from the launch of the calls to the join the history is not       *)
(* mutated, and every request issued in the round holds the history as it *)
(* stands, followed by the new message only.                              *)
C10_HistoryFrozenDuringRound ==
    [][ /\ pc = "gather" =>
              /\ chat_history' = chat_history
              /\ \A b \in BackendSet :
                    calls'[b].st = "waiting" =>
                        calls'[b].request = BuildMessages(chat_history, message)
              /\ (~chat.live /\ chat'.live) => chat'.seed = UserContents(chat_history)
        /\ (pc = "chat" /\ pc' = "chat") => chat_history' = chat_history ]_vars

C10_Witness ==
    /\ Frankenthought
    /\ pc = "gather"
    /\ chat_history # <<>>
    /\ calls["deepseek"].st = "waiting"
    /\ calls["o1"].st = "done"
    /\ calls["o1"].outcome = "replied"

(* C11: in a dispatch round a call whose request is outstanding does not  *)
(* block the other calls: while the request of any backend (Gemini while   *)
(* seeding or sending included) is outstanding, the next task in creation  *)
(* order that has not yet run can take its first step and issue its        *)
(* request.                                                                *)
Outstanding(b) == calls[b].st \in {"replay", "send", "waiting"}

NextToStart(x) ==
    /\ x # "gemini"
    /\ calls[x].st = "created"
    /\ \A j \in 1 .. TaskIndex(x) - 1 : calls[Backends[j]].st # "created"

C11_WaitingCallDoesNotBlock ==
    (Frankenthought /\ pc = "gather") =>
        \A b \in BackendSet, x \in BackendSet :
            (Outstanding(b) /\ NextToStart(x)) => ENABLED FT_OpenAIStart(x)

(* What the model shows instead: no other request is issued while a Gemini *)
(* request is outstanding; the three awaited requests do overlap.          *)
GeminiCallRunsAlone ==
    Outstanding("gemini") =>
        \A x \in BackendSet \ {"gemini"} : calls[x].st \in {"none", "created"}

AwaitedCallsOverlap ==
    \A b \in BackendSet \ {"gemini"} :
        Outstanding(b) /\ \E x \in BackendSet \ {b} : Outstanding(x)

(* C12: every completed all-parallel exchange leaves the persisted log     *)
(* equal to the log persisted before it followed by exactly one new entry  *)
(* holding the exchange's user message, its four per-backend responses and *)
(* its final response (so after k exchanges the log is L followed by k     *)
(* entries in exchange order, none dropped or reordered); nothing else     *)
(* changes the log.                                                        *)
ExchangeCompletes == Frankenthought /\ pc = "synthesized" /\ pc' = "returned"

ExchangeEntry ==
    [user_message |-> message,
     model_responses |->
         [i \in 1 .. Len(Backends) |-> <<"Model", i, calls[Backends[i]].result>>],
     final_response |-> final_response]

C12_LogGrowsByOneEntryPerExchange ==
    [][ IF ExchangeCompletes
        THEN /\ log_file'.status = "valid"
             /\ log_file'.entries = Append(log_file.entries, ExchangeEntry)
        ELSE log_file' = log_file ]_vars

(* The case the claim names: a load that fails to parse, after which a     *)
(* successful save holds the new entry alone.                              *)
SavedAfterParseFailure ==
    /\ log_file.status = "corrupt"
    /\ ExchangeCompletes
    /\ log_file'.status = "valid"

C12_ParseFailureKeepsEarlierEntries ==
    [][ SavedAfterParseFailure => Len(log_file'.entries) > 1 ]_vars

(* C13: a failure raised while handling an input never ends the process:  *)
(* once control is in the except clause of main() the next step is the    *)
(* prompt for the next input, and the loop ends only on --exit at the     *)
(* prompt or, in single-select mode, on choosing 0 in the backend menu.   *)
Ended == {"exited", "crashed"}

InExceptClause == pc \in {"failed", "except"}

C13_OnlyExitEndsTheLoop ==
    [][ /\ InExceptClause => pc' = "input"
        /\ (pc \notin Ended /\ pc' \in Ended) =>
              \/ pc = "input" /\ pc' = "exited"
              \/ Multi /\ pc = "menu" /\ pc' = "exited" ]_vars

(* C14: in single-select mode the change-backend command (--change and    *)
(* the menu choice that follows it) changes only the active backend: the  *)
(* history, the Gemini session and the availability of the backends are   *)
(* as before, reading the next message changes none of them either, and   *)
(* the request then issued to a stateless backend is the system turn, the *)
(* whole history and the new user message.                                *)
InBackendMenu == Multi /\ (pc = "menu" \/ pc' = "menu")

StatelessRequestIssued(b) ==
    /\ Multi
    /\ b # "gemini"
    /\ calls[b].st # "waiting"
    /\ calls'[b].st = "waiting"

C14_ChangeKeepsConversation ==
    [][ /\ InBackendMenu =>
              /\ UNCHANGED <<chat_history, chat, config, exchanges, cleared, log_file>>
              /\ pc' = "menu" => current_model' = current_model
        /\ (Multi /\ pc = "input" /\ pc' = "chat") =>
              UNCHANGED <<chat_history, chat, config, current_model>>
        /\ \A b \in BackendSet :
              StatelessRequestIssued(b) =>
                 /\ b = MultiModels[current_model]
                 /\ calls'[b].request =
                        <<SystemTurn>> \o chat_history \o <<Turn("user", message)>> ]_vars

(* A stateless backend, selected after an exchange with Gemini, has been  *)
(* sent that exchange                                                     *)
C14_Witness ==
    /\ Multi
    /\ pc = "chat"
    /\ chat.live
    /\ \E b \in BackendSet \ {"gemini"} :
          /\ MultiModels[current_model] = b
          /\ calls[b].st = "waiting"
          /\ Len(calls[b].request) = 4
          /\ calls[b].request[3].content \in ReplyTexts("gemini")

(* C15: seeding a Gemini session is idempotent: a session, once created,  *)
(* lives with the same seed until the next clear; user turns are replayed *)
(* only by the call that created the session, each at most once and in    *)
(* order; a call that finds the session already there sends the new       *)
(* message alone and leaves the session as it is until the reply.         *)
SeedingStarts == calls["gemini"].st # "replay" /\ calls'["gemini"].st = "replay"

SendIssuedToReadySession ==
    /\ chat.live
    /\ calls["gemini"].st \notin {"replay", "send"}
    /\ calls'["gemini"].st = "send"

C15_SeedingIsIdempotent ==
    [][ /\ SeedingStarts => ~chat.live /\ chat'.live /\ chat'.sent = <<>>
        /\ calls'["gemini"].st = "replay" =>
              /\ calls'["gemini"].idx = Len(chat'.sent) + 1
              /\ calls'["gemini"].request = chat'.seed[calls'["gemini"].idx]
              /\ chat'.sent = SubSeq(chat'.seed, 1, Len(chat'.sent))
        /\ SendIssuedToReadySession =>
              /\ calls'["gemini"].request = message
              /\ chat' = chat
        /\ (chat.live /\ chat' # chat) =>
              \/ chat' = NoChat /\ pc = "input" /\ chat_history' = <<>>
              \/ /\ chat'.live
                 /\ chat'.seed = chat.seed
                 /\ chat'.sent = Append(chat.sent, calls["gemini"].request) ]_vars

(* A later send: the session has already received a message of its own,   *)
(* the history holds user turns, and the call sends the new message only   *)
C15_Witness ==
    /\ chat.live
    /\ Len(chat.sent) > Len(chat.seed)
    /\ UserContents(chat_history) # <<>>
    /\ calls["gemini"].st = "send"
    /\ calls["gemini"].request = message

====
